---- MODULE Spec2Model ----
(***************************************************************************)
(* Model of src/multi_camera_processor.py: the camera workers              *)
(* (process_camera, override_signal) and the signal scheduler              *)
(* (update_traffic_signals), which share the module's global maps without  *)
(* any lock.  A thread's step is one access to shared state together with  *)
(* the thread-local computation around it.                                 *)
(***************************************************************************)
EXTENDS Integers, Sequences, FiniteSets, TLC

(* ---------------------------------------------------------------------- *)
(* Program constants                                                       *)
(* ---------------------------------------------------------------------- *)
LOW_TRAFFIC_THRESHOLD == 2
WAIT_LIMIT == 3
EMERGENCY_HOLD_TIME == 20

\* CROSSING_LINE_Y_RATIO = 0.8, kept as the fraction 8/10
CROSSING_LINE_Y_NUM == 8
CROSSING_LINE_Y_DEN == 10

\* the lanes of camera_sources (src/main.py lists CAM1..CAM4; the model
\* starts the first two, in the order start_all_cameras starts them)
camera_sources == <<"CAM1", "CAM2">>
Cams == {camera_sources[k] : k \in 1..Len(camera_sources)}

\* start_all_cameras starts a worker for every entry of the dict it is
\* given: an intersection watched by five cameras
wide_sources == <<"CAM1", "CAM2", "CAM3", "CAM4", "CAM5">>
AllCams == Cams \cup {wide_sources[k] : k \in 1..Len(wide_sources)}

None == "None"

(* ---------------------------------------------------------------------- *)
(* Bounds of the model                                                     *)
(* ---------------------------------------------------------------------- *)
\* height of a frame in pixels (frame.shape[0])
FrameHeight == 5
\* track identifiers a tracker hands out in the violation scenarios
MaxVehicles == 1
\* round-robin ticks explored (current_index grows without bound in the code)
MaxIndex == 3
\* the clock: seconds per step of the clock, and the last instant explored
ClockStep == 20
MaxTime == 40
\* rounds without green explored (lane_priority grows without bound in the code)
MaxWait == 8

\* time.time() at start-up: seconds since the epoch, far more than the hold
\* time, so the initial timestamp 0 is long expired
StartTime == EMERGENCY_HOLD_TIME

(* ---------------------------------------------------------------------- *)
(* Python dicts: insertion-ordered, as a sequence of <<key, value>>        *)
(* ---------------------------------------------------------------------- *)
Keys(d) == [k \in 1..Len(d) |-> d[k][1]]
KeySet(d) == {d[k][1] : k \in 1..Len(d)}
Values(d) == {d[k][2] : k \in 1..Len(d)}
Get(d, key, default) ==
    IF key \in KeySet(d)
    THEN d[CHOOSE k \in 1..Len(d) : d[k][1] = key][2]
    ELSE default
Put(d, key, value) ==
    IF key \in KeySet(d)
    THEN [k \in 1..Len(d) |-> IF d[k][1] = key THEN <<key, value>> ELSE d[k]]
    ELSE Append(d, <<key, value>>)

\* dicts that are never iterated (lane_priority, a lane's last positions):
\* a function on the key set; a defaultdict(int) reads a missing key as 0
EmptyMap == [c \in {} |-> 0]
GetOr(p, c, default) == IF c \in DOMAIN p THEN p[c] ELSE default
Store(p, c, v) == [x \in (DOMAIN p) \cup {c} |-> IF x = c THEN v ELSE p[x]]

VARIABLES
    vehicle_counts,          \* dict cam -> occupancy
    traffic_lights,          \* dict cam -> "RED" | "GREEN"
    vehicle_last_positions,  \* cam -> (vehicle id -> last y)
    violated_ids,            \* cam -> set of vehicle ids
    lane_cycle,              \* list of cams
    current_index,
    lane_priority,           \* defaultdict cam -> rounds without green
    emergency_override,      \* [active, cam_id, timestamp]
    violation_log,           \* cam -> (vehicle id -> calls of log_violation)
    now,                     \* time.time()
    spc,                     \* the scheduler's position
    elapsed, cam, lanes, selected_cam, sched_i, sched_n,  \* its locals
    wpc,                     \* cam -> the worker's position
    ov_i, ov_n,              \* cam -> override_signal's loop over traffic_lights
    crossings_on_red,        \* history: cam -> (id -> crossings seen on RED, up to 2)
    rr_history               \* history: the lanes the round-robin chose since
                             \* the lane cycle was last rebuilt

shared == <<vehicle_counts, traffic_lights, emergency_override>>
tracking == <<vehicle_last_positions, violated_ids, violation_log, crossings_on_red>>
schedstate == <<lane_cycle, current_index, lane_priority, rr_history>>
schedlocals == <<spc, elapsed, cam, lanes, selected_cam, sched_i, sched_n>>
workerlocals == <<wpc, ov_i, ov_n>>
vars == <<vehicle_counts, traffic_lights, vehicle_last_positions, violated_ids,
          lane_cycle, current_index, lane_priority, emergency_override,
          violation_log, now, spc, elapsed, cam, lanes, selected_cam, sched_i,
          sched_n, wpc, ov_i, ov_n, crossings_on_red, rr_history>>

Init ==
    /\ vehicle_counts = <<>>
    /\ traffic_lights = <<>>
    /\ vehicle_last_positions = [c \in AllCams |-> EmptyMap]
    /\ violated_ids = [c \in AllCams |-> {}]
    /\ lane_cycle = <<>>
    /\ current_index = 0
    /\ lane_priority = EmptyMap
    /\ emergency_override = [active |-> FALSE, cam_id |-> None, timestamp |-> 0]
    /\ violation_log = [c \in AllCams |-> EmptyMap]
    /\ now = StartTime
    /\ spc = "check"
    /\ elapsed = 0
    /\ cam = None
    /\ lanes = <<>>
    /\ selected_cam = None
    /\ sched_i = 0
    /\ sched_n = 0
    /\ wpc = [c \in AllCams |-> "read"]
    /\ ov_i = [c \in AllCams |-> 0]
    /\ ov_n = [c \in AllCams |-> 0]
    /\ crossings_on_red = [c \in AllCams |-> EmptyMap]
    /\ rr_history = <<>>

(* ---------------------------------------------------------------------- *)
(* update_traffic_signals: the selection of the lane that gets green       *)
(* ---------------------------------------------------------------------- *)
\* all(count < LOW_TRAFFIC_THRESHOLD for count in counts.values())
AllLow(counts) == \A v \in Values(counts) : v < LOW_TRAFFIC_THRESHOLD

\* lane_cycle[current_index % len(lane_cycle)]
RoundRobinFirst(cycle, index) == cycle[1]
RoundRobin(cycle, index) == cycle[(index % Len(cycle)) + 1]

\* the first lane of the scan whose counter has reached WAIT_LIMIT, or None
ForcedGreen(ls, priority) ==
    IF \E k \in 1..Len(ls) : GetOr(priority, ls[k], 0) >= WAIT_LIMIT
    THEN ls[CHOOSE k \in 1..Len(ls) :
                /\ GetOr(priority, ls[k], 0) >= WAIT_LIMIT
                /\ \A j \in 1..(k - 1) : GetOr(priority, ls[j], 0) < WAIT_LIMIT]
    ELSE None

\* max(counts, key=counts.get): the first key of the largest count
MaxDensityLast(counts) ==
    counts[CHOOSE k \in 1..Len(counts) :
                /\ \A j \in 1..Len(counts) : counts[j][2] <= counts[k][2]
                /\ \A j \in (k + 1)..Len(counts) : counts[j][2] < counts[k][2]][1]
MaxDensity(counts) ==
    counts[CHOOSE k \in 1..Len(counts) :
                /\ \A j \in 1..Len(counts) : counts[j][2] <= counts[k][2]
                /\ \A j \in 1..(k - 1) : counts[j][2] < counts[k][2]][1]

\* for cam in lanes: the selected lane's counter to 0, the others one up
UpdatePriority(ls, priority, selected) ==
    LET S == {ls[k] : k \in 1..Len(ls)}
    IN [c \in (DOMAIN priority) \cup S |->
            IF c \in S
            THEN IF c = selected THEN 0 ELSE GetOr(priority, c, 0) + 1
            ELSE priority[c]]

\* the lane cycle is rebuilt when the set of lanes differs from it
CycleStale(cycle, ls) ==
    cycle = <<>> \/ {cycle[k] : k \in 1..Len(cycle)} # {ls[k] : k \in 1..Len(ls)}

\* lines 206-242 on the scheduler's own data: the copy of the counts, the
\* lanes read before it, the cycle, the index and the counters
Selection(ls, counts, cycle, index, priority) ==
    LET stale == CycleStale(cycle, ls)
        cyc == IF stale THEN ls ELSE cycle
        idx == IF stale THEN 0 ELSE index
        pri == IF stale THEN EmptyMap ELSE priority
    IN IF AllLow(counts)
       THEN LET sel == RoundRobin(cyc, idx)
            IN [lane_cycle |-> cyc, current_index |-> idx + 1,
                lane_priority |-> Store(pri, sel, 0), selected_cam |-> sel,
                state |-> "ROUND_ROBIN", rebuilt |-> stale]
       ELSE LET forced == ForcedGreen(ls, pri)
                sel == IF forced # None THEN forced ELSE MaxDensity(counts)
            IN [lane_cycle |-> cyc, current_index |-> idx,
                lane_priority |-> UpdatePriority(ls, pri, sel), selected_cam |-> sel,
                state |-> IF forced # None THEN "FAIRNESS_FORCED" ELSE "DENSITY",
                rebuilt |-> stale]

(* ---------------------------------------------------------------------- *)
(* update_traffic_signals: the steps of the loop                           *)
(* ---------------------------------------------------------------------- *)
\* line 186: if emergency_override["active"]
SchedCheck ==
    /\ spc = "check"
    /\ spc' = IF emergency_override.active THEN "elapsed" ELSE "idle"
    /\ UNCHANGED <<shared, tracking, schedstate, workerlocals, now,
                   elapsed, cam, lanes, selected_cam, sched_i, sched_n>>

\* lines 187-188: elapsed = time.time() - timestamp; if elapsed < HOLD
SchedElapsed ==
    /\ spc = "elapsed"
    /\ elapsed' = now - emergency_override.timestamp
    /\ spc' = IF elapsed' < EMERGENCY_HOLD_TIME THEN "hold_cam" ELSE "expire_active"
    /\ UNCHANGED <<shared, tracking, schedstate, workerlocals, now,
                   cam, lanes, selected_cam, sched_i, sched_n>>

\* lines 189-190: cam = emergency_override["cam_id"]; iter(traffic_lights)
SchedHoldCam ==
    /\ spc = "hold_cam"
    /\ cam' = emergency_override.cam_id
    /\ sched_i' = 1
    /\ sched_n' = Len(traffic_lights)
    /\ spc' = "hold_red"
    /\ UNCHANGED <<shared, tracking, schedstate, workerlocals, now,
                   elapsed, lanes, selected_cam>>

\* the scheduler thread ends with an uncaught exception
SchedCrash ==
    /\ spc' = "crashed"
    /\ elapsed' = 0 /\ cam' = None /\ lanes' = <<>> /\ selected_cam' = None
    /\ sched_i' = 0 /\ sched_n' = 0

\* lines 190-191: for c in traffic_lights: traffic_lights[c] = "RED"
\* (a dict that changed size under the iteration raises RuntimeError)
SchedHoldRed ==
    /\ spc = "hold_red"
    /\ sched_i <= sched_n
    /\ IF Len(traffic_lights) # sched_n
       THEN SchedCrash /\ UNCHANGED traffic_lights
       ELSE /\ traffic_lights' =
                  [traffic_lights EXCEPT ![sched_i] = <<traffic_lights[sched_i][1], "RED">>]
            /\ sched_i' = sched_i + 1
            /\ UNCHANGED <<spc, elapsed, cam, lanes, selected_cam, sched_n>>
    /\ UNCHANGED <<vehicle_counts, emergency_override, tracking, schedstate,
                   workerlocals, now>>

\* the end of the loop and lines 192-194: traffic_lights[cam] = "GREEN"; sleep(1)
SchedHoldGreen ==
    /\ spc = "hold_red"
    /\ sched_i > sched_n
    /\ IF Len(traffic_lights) # sched_n
       THEN SchedCrash /\ UNCHANGED traffic_lights
       ELSE /\ traffic_lights' = Put(traffic_lights, cam, "GREEN")
            /\ spc' = "sleep_hold"
            /\ sched_i' = 0 /\ sched_n' = 0 /\ elapsed' = 0
            /\ UNCHANGED <<cam, lanes, selected_cam>>
    /\ UNCHANGED <<vehicle_counts, emergency_override, tracking, schedstate,
                   workerlocals, now>>

\* line 197: emergency_override["active"] = False
SchedExpireActive ==
    /\ spc = "expire_active"
    /\ emergency_override' = [emergency_override EXCEPT !.active = FALSE]
    /\ spc' = "expire_cam"
    /\ UNCHANGED <<vehicle_counts, traffic_lights, tracking, schedstate,
                   workerlocals, now, elapsed, cam, lanes, selected_cam,
                   sched_i, sched_n>>

\* line 198: emergency_override["cam_id"] = None
SchedExpireCam ==
    /\ spc = "expire_cam"
    /\ emergency_override' = [emergency_override EXCEPT !.cam_id = None]
    /\ spc' = "idle"
    /\ elapsed' = 0
    /\ UNCHANGED <<vehicle_counts, traffic_lights, tracking, schedstate,
                   workerlocals, now, cam, lanes, selected_cam, sched_i, sched_n>>

\* lines 201-203: if not vehicle_counts: sleep(1); continue
SchedIdle ==
    /\ spc = "idle"
    /\ spc' = IF vehicle_counts = <<>> THEN "sleep_idle" ELSE "lanes"
    /\ UNCHANGED <<shared, tracking, schedstate, workerlocals, now,
                   elapsed, cam, lanes, selected_cam, sched_i, sched_n>>

\* line 205: lanes = list(vehicle_counts.keys())
SchedLanes ==
    /\ spc = "lanes"
    /\ lanes' = Keys(vehicle_counts)
    /\ spc' = "select"
    /\ UNCHANGED <<shared, tracking, schedstate, workerlocals, now,
                   elapsed, cam, selected_cam, sched_i, sched_n>>

\* lines 206-242: counts = vehicle_counts.copy() and the selection made of it
SchedSelect ==
    /\ spc = "select"
    /\ LET r == Selection(lanes, vehicle_counts, lane_cycle, current_index,
                          lane_priority)
       IN /\ r.current_index <= MaxIndex
          /\ \A c \in DOMAIN r.lane_priority : r.lane_priority[c] <= MaxWait
          /\ lane_cycle' = r.lane_cycle
          /\ current_index' = r.current_index
          /\ lane_priority' = r.lane_priority
          /\ selected_cam' = r.selected_cam
          /\ rr_history' =
                LET h == IF r.rebuilt THEN <<>> ELSE rr_history
                IN IF r.state = "ROUND_ROBIN" THEN Append(h, r.selected_cam) ELSE h
    /\ sched_i' = 1
    /\ spc' = "lights"
    /\ UNCHANGED <<shared, tracking, workerlocals, now, elapsed, cam, lanes, sched_n>>

\* lines 245-248: for cam in lanes: traffic_lights[cam] = ...; sleep(10)
SchedLights ==
    /\ spc = "lights"
    /\ traffic_lights' = Put(traffic_lights, lanes[sched_i],
                             IF lanes[sched_i] = selected_cam THEN "GREEN" ELSE "RED")
    /\ IF sched_i = Len(lanes)
       THEN spc' = "sleep_tick" /\ sched_i' = 0
       ELSE spc' = spc /\ sched_i' = sched_i + 1
    /\ UNCHANGED <<vehicle_counts, emergency_override, tracking, schedstate,
                   workerlocals, now, elapsed, cam, lanes, selected_cam, sched_n>>

\* time.sleep returns (lines 194, 202, 248) and the loop starts over
SchedWake ==
    /\ spc \in {"sleep_hold", "sleep_idle", "sleep_tick"}
    /\ spc' = "check"
    /\ cam' = None /\ lanes' = <<>> /\ selected_cam' = None
    /\ UNCHANGED <<shared, tracking, schedstate, workerlocals, now,
                   elapsed, sched_i, sched_n>>

\* the clock moves on
AdvanceTime ==
    /\ now + ClockStep <= MaxTime
    /\ now' = now + ClockStep
    /\ UNCHANGED <<shared, tracking, schedstate, schedlocals, workerlocals>>

(* ---------------------------------------------------------------------- *)
(* process_camera: the tracked objects of one frame                        *)
(* ---------------------------------------------------------------------- *)
\* crossing_y = int(CROSSING_LINE_Y_RATIO * frame_height)
crossing_y == (CROSSING_LINE_Y_NUM * FrameHeight) \div CROSSING_LINE_Y_DEN

\* line 130: if last_y < crossing_y <= current_y
Crossed(last_y, current_y) == last_y < crossing_y /\ crossing_y <= current_y

\* lines 130-131: the crossing is a violation
IsViolationAgain(last_y, current_y, color, flagged) ==
    /\ Crossed(last_y, current_y)
    /\ color = "RED"
IsViolationAnyColour(last_y, current_y, color, flagged) ==
    /\ Crossed(last_y, current_y)
    /\ ~flagged
IsViolation(last_y, current_y, color, flagged) ==
    /\ Crossed(last_y, current_y)
    /\ color = "RED"
    /\ ~flagged

\* line 126: vehicle_last_positions[cam_id].get(vehicle_id, current_y)
LastYZero(positions, vehicle_id, current_y) == GetOr(positions, vehicle_id, 0)
LastY(positions, vehicle_id, current_y) == GetOr(positions, vehicle_id, current_y)

\* lines 121-140 for one tracked object; t holds the lane's tracking data
TrackObject(t, obj, color) ==
    LET vehicle_id == obj.id
        current_y == obj.y2
        last_y == LastY(t.positions, vehicle_id, current_y)
        violation == IsViolation(last_y, current_y, color, vehicle_id \in t.violated)
        onred == Crossed(last_y, current_y) /\ color = "RED"
        seen == GetOr(t.crossings, vehicle_id, 0)
    IN [positions |-> Store(t.positions, vehicle_id, current_y),
        violated |-> IF violation THEN t.violated \cup {vehicle_id} ELSE t.violated,
        log |-> IF violation
                THEN Store(t.log, vehicle_id, GetOr(t.log, vehicle_id, 0) + 1)
                ELSE t.log,
        crossings |-> IF onred
                      THEN Store(t.crossings, vehicle_id, IF seen < 2 THEN seen + 1 ELSE 2)
                      ELSE t.crossings]

\* lines 120-145: for obj in tracked_objects
RECURSIVE TrackObjects(_, _, _)
TrackObjects(t, objs, color) ==
    IF objs = <<>> THEN t
    ELSE TrackObjects(TrackObject(t, Head(objs), color), Tail(objs), color)

\* lines 86-148: the frame's tracked objects are checked against the line
\* and the lane's occupancy is published
ProcessFrame(c, tracked_objects) ==
    LET t == TrackObjects([positions |-> vehicle_last_positions[c],
                           violated |-> violated_ids[c],
                           log |-> violation_log[c],
                           crossings |-> crossings_on_red[c]],
                          tracked_objects, Get(traffic_lights, c, "RED"))
    IN /\ vehicle_last_positions' = [vehicle_last_positions EXCEPT ![c] = t.positions]
       /\ violated_ids' = [violated_ids EXCEPT ![c] = t.violated]
       /\ violation_log' = [violation_log EXCEPT ![c] = t.log]
       /\ crossings_on_red' = [crossings_on_red EXCEPT ![c] = t.crossings]
       /\ vehicle_counts' = Put(vehicle_counts, c, Len(tracked_objects))

\* lines 120-138 when cv2.imwrite or log_violation raises at the first
\* violation of the frame: the position is stored (line 127), line 139 is
\* not reached and the exception leaves the loop
RECURSIVE TrackObjectsSinkDown(_, _, _)
TrackObjectsSinkDown(t, objs, color) ==
    IF objs = <<>> THEN [t |-> t, raised |-> FALSE]
    ELSE LET obj == Head(objs)
             last_y == LastY(t.positions, obj.id, obj.y2)
             done == TrackObject(t, obj, color)
         IN IF IsViolation(last_y, obj.y2, color, obj.id \in t.violated)
            THEN [t |-> [done EXCEPT !.violated = t.violated, !.log = t.log],
                  raised |-> TRUE]
            ELSE TrackObjectsSinkDown(done, Tail(objs), color)

(* ---------------------------------------------------------------------- *)
(* The frames a source delivers                                            *)
(* ---------------------------------------------------------------------- *)
\* occupancies below, at and above LOW_TRAFFIC_THRESHOLD
Occupancies == {0, LOW_TRAFFIC_THRESHOLD, LOW_TRAFFIC_THRESHOLD + 1}

\* n vehicles standing at the top of the image, far from the line
Standing(n) == [k \in 1..n |-> [id |-> k, y2 |-> 1]]
OccupancyFrames == {Standing(n) : n \in Occupancies}

\* bottom edges just before the line, on it and at the lower border
LineYs == {crossing_y - 1, crossing_y, FrameHeight}

\* the tracker's output: tracks 1..MaxVehicles, each absent or at some y
RECURSIVE TracksFrom(_)
TracksFrom(v) ==
    IF v > MaxVehicles THEN {<<>>}
    ELSE LET rest == TracksFrom(v + 1)
         IN rest \cup {<<[id |-> v, y2 |-> y]>> \o r : y \in LineYs, r \in rest}
LineFrames == TracksFrom(1)

(* ---------------------------------------------------------------------- *)
(* process_camera and override_signal: the steps of a worker               *)
(* ---------------------------------------------------------------------- *)
\* lines 77-148, a frame without an emergency vehicle
FrameQuiet(c, tracked_objects) ==
    /\ wpc[c] = "read"
    /\ ProcessFrame(c, tracked_objects)
    /\ UNCHANGED <<traffic_lights, emergency_override, schedstate, schedlocals,
                   workerlocals, now>>

\* lines 77-83 and 54: detect_emergency_vehicle(frame) holds,
\* override_signal starts its loop over traffic_lights
FrameEmergency(c) ==
    /\ wpc[c] = "read"
    /\ wpc' = [wpc EXCEPT ![c] = "ov_red"]
    /\ ov_i' = [ov_i EXCEPT ![c] = 1]
    /\ ov_n' = [ov_n EXCEPT ![c] = Len(traffic_lights)]
    /\ UNCHANGED <<shared, tracking, schedstate, schedlocals, now>>

\* the worker thread ends with an uncaught exception
WorkerCrash(c) ==
    /\ wpc' = [wpc EXCEPT ![c] = "crashed"]
    /\ ov_i' = [ov_i EXCEPT ![c] = 0]
    /\ ov_n' = [ov_n EXCEPT ![c] = 0]

\* lines 54-55: for cam in traffic_lights: traffic_lights[cam] = "RED"
OvRed(c) ==
    /\ wpc[c] = "ov_red"
    /\ ov_i[c] <= ov_n[c]
    /\ IF Len(traffic_lights) # ov_n[c]
       THEN WorkerCrash(c) /\ UNCHANGED traffic_lights
       ELSE /\ traffic_lights' =
                  [traffic_lights EXCEPT ![ov_i[c]] = <<traffic_lights[ov_i[c]][1], "RED">>]
            /\ ov_i' = [ov_i EXCEPT ![c] = ov_i[c] + 1]
            /\ UNCHANGED <<wpc, ov_n>>
    /\ UNCHANGED <<vehicle_counts, emergency_override, tracking, schedstate,
                   schedlocals, now>>

\* the end of the loop and line 56: traffic_lights[cam_id] = "GREEN"
OvGreen(c) ==
    /\ wpc[c] = "ov_red"
    /\ ov_i[c] > ov_n[c]
    /\ IF Len(traffic_lights) # ov_n[c]
       THEN WorkerCrash(c) /\ UNCHANGED traffic_lights
       ELSE /\ traffic_lights' = Put(traffic_lights, c, "GREEN")
            /\ wpc' = [wpc EXCEPT ![c] = "ov_active"]
            /\ ov_i' = [ov_i EXCEPT ![c] = 0]
            /\ ov_n' = [ov_n EXCEPT ![c] = 0]
    /\ UNCHANGED <<vehicle_counts, emergency_override, tracking, schedstate,
                   schedlocals, now>>

\* line 57: emergency_override["active"] = True
OvActive(c) ==
    /\ wpc[c] = "ov_active"
    /\ emergency_override' = [emergency_override EXCEPT !.active = TRUE]
    /\ wpc' = [wpc EXCEPT ![c] = "ov_cam_id"]
    /\ UNCHANGED <<vehicle_counts, traffic_lights, tracking, schedstate,
                   schedlocals, now, ov_i, ov_n>>

\* line 58: emergency_override["cam_id"] = cam_id
OvCamId(c) ==
    /\ wpc[c] = "ov_cam_id"
    /\ emergency_override' = [emergency_override EXCEPT !.cam_id = c]
    /\ wpc' = [wpc EXCEPT ![c] = "ov_timestamp"]
    /\ UNCHANGED <<vehicle_counts, traffic_lights, tracking, schedstate,
                   schedlocals, now, ov_i, ov_n>>

\* line 59: emergency_override["timestamp"] = time.time()
OvTimestamp(c) ==
    /\ wpc[c] = "ov_timestamp"
    /\ emergency_override' = [emergency_override EXCEPT !.timestamp = now]
    /\ wpc' = [wpc EXCEPT ![c] = "track"]
    /\ UNCHANGED <<vehicle_counts, traffic_lights, tracking, schedstate,
                   schedlocals, now, ov_i, ov_n>>

\* lines 86-148 of the frame that raised the emergency
FrameAfterOverride(c, tracked_objects) ==
    /\ wpc[c] = "track"
    /\ ProcessFrame(c, tracked_objects)
    /\ wpc' = [wpc EXCEPT ![c] = "read"]
    /\ UNCHANGED <<traffic_lights, emergency_override, schedstate, schedlocals,
                   now, ov_i, ov_n>>

\* lines 76-79 and 167-168: the source is exhausted or did not open
ExhaustSilent(c) ==
    /\ wpc[c] = "read"
    /\ wpc' = [wpc EXCEPT ![c] = "done"]
    /\ UNCHANGED <<shared, tracking, schedstate, schedlocals, now, ov_i, ov_n>>
Exhaust(c) ==
    /\ wpc[c] = "read"
    /\ vehicle_counts' = Put(vehicle_counts, c, 0)
    /\ wpc' = [wpc EXCEPT ![c] = "done"]
    /\ UNCHANGED <<traffic_lights, emergency_override, tracking, schedstate,
                   schedlocals, now, ov_i, ov_n>>

\* lines 77-138, a frame with a violation whose snapshot or record cannot
\* be written: the exception is caught nowhere in process_camera, the thread
\* ends before lines 139, 148 and 168
FrameSinkFails(c, tracked_objects) ==
    /\ wpc[c] = "read"
    /\ LET r == TrackObjectsSinkDown([positions |-> vehicle_last_positions[c],
                                      violated |-> violated_ids[c],
                                      log |-> violation_log[c],
                                      crossings |-> crossings_on_red[c]],
                                     tracked_objects, Get(traffic_lights, c, "RED"))
       IN /\ r.raised
          /\ vehicle_last_positions' = [vehicle_last_positions EXCEPT ![c] = r.t.positions]
          /\ violated_ids' = [violated_ids EXCEPT ![c] = r.t.violated]
          /\ violation_log' = [violation_log EXCEPT ![c] = r.t.log]
          /\ crossings_on_red' = [crossings_on_red EXCEPT ![c] = r.t.crossings]
    /\ WorkerCrash(c)
    /\ UNCHANGED <<shared, schedstate, schedlocals, now>>

\* lines 77-86: model(frame) raises; the call is outside the try of lines
\* 102-114 and nothing else catches the exception, so the thread ends
FrameDetectorFails(c) ==
    /\ wpc[c] = "read"
    /\ WorkerCrash(c)
    /\ UNCHANGED <<shared, tracking, schedstate, schedlocals, now>>

\* lines 102-114: trackers[cam_id].update(dets) raises, the except clause
\* sets tracked_objects = [] and the frame goes on to line 148
FrameTrackerFails(c) ==
    /\ wpc[c] = "read"
    /\ ProcessFrame(c, <<>>)
    /\ UNCHANGED <<traffic_lights, emergency_override, schedstate, schedlocals,
                   workerlocals, now>>

(* ---------------------------------------------------------------------- *)
(* Specifications                                                          *)
(* ---------------------------------------------------------------------- *)
\* the scheduler's loop without an emergency
SchedulerNormal ==
    \/ SchedCheck
    \/ SchedIdle
    \/ SchedLanes
    \/ SchedSelect
    \/ SchedLights
    \/ SchedWake

\* the scheduler's loop under an emergency override
SchedulerEmergency ==
    \/ SchedElapsed
    \/ SchedHoldCam
    \/ SchedHoldRed
    \/ SchedHoldGreen
    \/ SchedExpireActive
    \/ SchedExpireCam

\* the scheduler against a worker that sees emergency vehicles, and the
\* clock; the second lane's source does not open
EmergencyFrames == {Standing(0), Standing(LOW_TRAFFIC_THRESHOLD)}
Next ==
    \/ SchedulerNormal
    \/ SchedulerEmergency
    \/ AdvanceTime
    \/ \E objs \in EmergencyFrames : FrameQuiet(camera_sources[1], objs)
    \/ FrameEmergency(camera_sources[1])
    \/ OvRed(camera_sources[1])
    \/ OvGreen(camera_sources[1])
    \/ OvActive(camera_sources[1])
    \/ OvCamId(camera_sources[1])
    \/ OvTimestamp(camera_sources[1])
    \/ \E objs \in EmergencyFrames : FrameAfterOverride(camera_sources[1], objs)
    \/ Exhaust(camera_sources[2])
Spec == Init /\ [][Next]_vars

\* the scheduler and the workers' occupancies, no emergency vehicle in sight
NextSched ==
    \/ SchedulerNormal
    \/ \E c \in Cams :
         \/ \E objs \in OccupancyFrames : FrameQuiet(c, objs)
         \/ Exhaust(c)
SpecSched == Init /\ [][NextSched]_vars

\* one lane's vehicles around the crossing line; the second lane's source
\* does not open, so the scheduler alternates the colours of the first
NextDetect ==
    \/ SchedulerNormal
    \/ \E objs \in LineFrames : FrameQuiet(camera_sources[1], objs)
    \/ Exhaust(camera_sources[1])
    \/ Exhaust(camera_sources[2])
SpecDetect == Init /\ [][NextDetect]_vars

\* one lane's vehicles around the crossing line with a persistence sink
\* that may fail
NextSink ==
    \/ NextDetect
    \/ \E objs \in LineFrames : FrameSinkFails(camera_sources[1], objs)
SpecSink == Init /\ [][NextSink]_vars

\* the scheduler and the workers' occupancies with a detector and a tracker
\* that may fail on a frame
NextFaults ==
    \/ NextSched
    \/ \E c \in Cams : FrameDetectorFails(c) \/ FrameTrackerFails(c)
SpecFaults == Init /\ [][NextFaults]_vars

\* five lanes: the first reports heavy traffic in every frame, the others
\* an empty road
NextWide ==
    \/ SchedulerNormal
    \/ FrameQuiet(wide_sources[1], Standing(LOW_TRAFFIC_THRESHOLD + 1))
    \/ \E k \in 2..Len(wide_sources) : FrameQuiet(wide_sources[k], Standing(0))
SpecWide == Init /\ [][NextWide]_vars

(* ---------------------------------------------------------------------- *)
(* src/main.py: the emergency status query                                 *)
(* ---------------------------------------------------------------------- *)
\* main.py lines 25-29: the module's own emergency_override dict; nothing in
\* main.py assigns to it and multi_camera_processor writes the dict of its
\* own module, so it keeps the value it is created with
main_emergency_override == [active |-> FALSE, cam_id |-> None, timestamp |-> 0]

Max(a, b) == IF a >= b THEN a ELSE b

\* main.py lines 66-71 (its EMERGENCY_HOLD_TIME, line 31, is the same 20)
get_emergency_status ==
    [active |-> main_emergency_override.active,
     cam_id |-> main_emergency_override.cam_id,
     remaining_time |->
        IF main_emergency_override.active
        THEN Max(0, EMERGENCY_HOLD_TIME - (now - main_emergency_override.timestamp))
        ELSE 0]

(* ---------------------------------------------------------------------- *)
(* Properties                                                              *)
(* ---------------------------------------------------------------------- *)
\* the lanes whose colour is GREEN
GreenLanes ==
    {traffic_lights[k][1] :
        k \in {j \in 1..Len(traffic_lights) : traffic_lights[j][2] = "GREEN"}}

\* the scheduler stands between two ticks: about to start one, or asleep
\* after one
BetweenTicks == spc \in {"check", "sleep_hold", "sleep_idle", "sleep_tick"}

\* a worker is inside override_signal
Overriding(c) == wpc[c] \in {"ov_red", "ov_active", "ov_cam_id", "ov_timestamp"}

\* C1: between two ticks of the scheduler, once any colour has been written,
\* exactly one lane is GREEN and every other lane is RED, whatever the
\* workers' calls of override_signal did in between.
C1_ExactlyOneGreen ==
    (BetweenTicks /\ traffic_lights # <<>>) => Cardinality(GreenLanes) = 1

\* C2: at most one violation record is ever created for a lane and a
\* vehicle id, however often the vehicle crosses the line on RED.
C2_AtMostOneRecord ==
    \A c \in Cams : \A v \in DOMAIN violation_log[c] : violation_log[c][v] <= 1

\* a vehicle has crossed the line on RED a second time and has one record
C2_Witness ==
    \E c \in Cams : \E v \in DOMAIN crossings_on_red[c] :
        crossings_on_red[c][v] = 2 /\ GetOr(violation_log[c], v, 0) = 1

\* C3: a vehicle id seen for the first time in a lane is not flagged in the
\* step that first sees it, wherever it stands and whatever the colour.
C3_FirstSightingExempt ==
    [][\A c \in Cams : \A v \in DOMAIN vehicle_last_positions'[c] :
          v \notin DOMAIN vehicle_last_positions[c]
          => (v \notin violated_ids'[c] /\ GetOr(violation_log'[c], v, 0) = 0)]_vars

\* a lane whose colour was never written (it reads as RED) holds a vehicle
\* on or past the line that is not flagged: it was first seen there
C3_Witness ==
    \E c \in Cams :
        /\ c \notin KeySet(traffic_lights)
        /\ \E v \in DOMAIN vehicle_last_positions[c] :
              vehicle_last_positions[c][v] >= crossing_y /\ v \notin violated_ids[c]

\* the scheduler's step that selects the lane of a normal tick, the lane
\* cycle being that of the lanes it read (the lane set has not changed)
SelectsNow == spc = "select" /\ spc' = "lights" /\ ~CycleStale(lane_cycle, lanes)

\* C4: a lane whose counter has reached WAIT_LIMIT is the lane selected by
\* the next tick, whatever the occupancies.
C4_LimitReachedSelectedNext ==
    [][SelectsNow =>
          \A k \in 1..Len(lanes) :
              GetOr(lane_priority, lanes[k], 0) >= WAIT_LIMIT
              => selected_cam' = lanes[k]]_vars

\* C5: a tick that completes while an activated override's hold time has
\* not elapsed leaves the override's lane GREEN and every other lane RED,
\* also when the activation came in the middle of a normal tick.
C5_HoldKeepsLaneGreen ==
    ( /\ spc \in {"sleep_hold", "sleep_tick"}
      /\ emergency_override.active
      /\ emergency_override.cam_id \in Cams
      /\ \A c \in Cams : ~Overriding(c)
      /\ now - emergency_override.timestamp < EMERGENCY_HOLD_TIME )
    => GreenLanes = {emergency_override.cam_id}

\* C6: with a fixed lane set the low-traffic ticks select lane_cycle[0],
\* lane_cycle[1], ..., lane_cycle[N-1], lane_cycle[0], ...: every lane once in
\* any N consecutive such ticks.
C6_RoundRobinCycles ==
    LET N == Len(lane_cycle)
    IN /\ \A k \in 1..Len(rr_history) : rr_history[k] = lane_cycle[((k - 1) % N) + 1]
       /\ \A k \in 1..(Len(rr_history) - N + 1) :
             {rr_history[j] : j \in k..(k + N - 1)} = {lane_cycle[j] : j \in 1..N}

\* the round-robin has gone once around both lanes and started over
C6_Witness ==
    Len(lane_cycle) = Len(camera_sources) /\ Len(rr_history) > Len(lane_cycle)

\* C7: at a tick at which some lane's counter is at least WAIT_LIMIT the
\* selected lane is the first such lane of the scan, also when all the
\* occupancies are below LOW_TRAFFIC_THRESHOLD.
C7_FairnessBeforeRoundRobin ==
    [][(SelectsNow /\ \E k \in 1..Len(lanes) :
                         GetOr(lane_priority, lanes[k], 0) >= WAIT_LIMIT)
          => \E k \in 1..Len(lanes) :
                /\ GetOr(lane_priority, lanes[k], 0) >= WAIT_LIMIT
                /\ \A j \in 1..(k - 1) : GetOr(lane_priority, lanes[j], 0) < WAIT_LIMIT
                /\ selected_cam' = lanes[k]]_vars

\* C8: after a tick that selects a lane the selected lane's counter is 0 and
\* every other lane's counter is one more than before the tick.
C8_CountersAfterTick ==
    [][SelectsNow =>
          /\ GetOr(lane_priority', selected_cam', 0) = 0
          /\ \A k \in 1..Len(lanes) :
                lanes[k] # selected_cam'
                => GetOr(lane_priority', lanes[k], 0)
                     = GetOr(lane_priority, lanes[k], 0) + 1]_vars

\* C9: the override is cleared only when the hold time has elapsed since
\* the most recent completed activation.
C9_ClearedOnlyAfterHold ==
    [][( /\ emergency_override.active
         /\ ~emergency_override'.active
         /\ \A c \in Cams : ~Overriding(c) )
          => now - emergency_override.timestamp >= EMERGENCY_HOLD_TIME]_vars

\* C10: the maps of colours, occupancies and counters have the same keys.
C10_SameKeys ==
    /\ KeySet(traffic_lights) = KeySet(vehicle_counts)
    /\ KeySet(vehicle_counts) = DOMAIN lane_priority

\* a step of a camera worker: the scheduler's position and locals and the
\* clock stay as they are
WorkerStep == schedlocals' = schedlocals /\ now' = now

\* C11: every step of a camera worker (frame processing, emergency
\* activation, termination) leaves every lane's colour and every priority
\* counter as it was: only the scheduler writes them.
C11_WorkersWriteNoColour ==
    [][WorkerStep => (traffic_lights' = traffic_lights /\ lane_priority' = lane_priority)]_vars

\* C12: whenever the override set by override_signal is active (the
\* activation completed), the status query returns active, the override's
\* lane and the remaining time max(0, hold - (now - timestamp)); when no
\* override is active it returns the remaining time 0.
C12_StatusReflectsOverride ==
    /\ (emergency_override.active /\ \A c \in Cams : ~Overriding(c))
        => /\ get_emergency_status.active
           /\ get_emergency_status.cam_id = emergency_override.cam_id
           /\ get_emergency_status.remaining_time
                = Max(0, EMERGENCY_HOLD_TIME - (now - emergency_override.timestamp))
    /\ ~emergency_override.active => get_emergency_status.remaining_time = 0

\* C13: a failure of the persistence sink for a detected violation neither
\* stops the worker nor leaves the vehicle unflagged: every vehicle that was
\* seen crossing the line on RED is in the lane's flagged set and no worker
\* has ended with an exception.
C13_SinkFailureStillFlags ==
    \A c \in Cams :
        /\ wpc[c] # "crashed"
        /\ \A v \in DOMAIN crossings_on_red[c] :
              crossings_on_red[c][v] >= 1 => v \in violated_ids[c]

\* C14: a failure of the detector or of the tracker on a frame never ends
\* the camera worker: no worker has ended with an exception.
C14_FaultsNeverEndWorker == \A c \in Cams : wpc[c] \in {"read", "done"}

\* C15: a worker whose source is exhausted or did not open publishes the
\* occupancy 0 and exits for good: every step that finds or leaves a worker
\* terminated leaves it terminated with the occupancy 0 of its lane.
C15_TerminatedLaneStaysZero ==
    [][\A c \in Cams :
          (wpc[c] = "done" \/ wpc'[c] = "done")
          => (wpc'[c] = "done" /\ Get(vehicle_counts', c, -1) = 0)]_vars

\* the first lane's worker has terminated, its lane reads 0, and the
\* scheduler has completed a tick that selected the second lane, whose
\* worker still runs and reports traffic
C15_Witness ==
    /\ wpc[camera_sources[1]] = "done"
    /\ wpc[camera_sources[2]] = "read"
    /\ Get(vehicle_counts, camera_sources[1], -1) = 0
    /\ Get(vehicle_counts, camera_sources[2], 0) >= LOW_TRAFFIC_THRESHOLD
    /\ spc = "sleep_tick"
    /\ selected_cam = camera_sources[2]

\* C16: no lane is starved: a lane that has reached WAIT_LIMIT waits at most
\* for the other lanes of the cycle to be served once, so no counter of
\* rounds without green exceeds WAIT_LIMIT + N - 1.
C16_NoLaneStarved ==
    \A c \in DOMAIN lane_priority :
        lane_priority[c] <= WAIT_LIMIT + Len(lane_cycle) - 1

\* C17: in a frame a violation is signalled for a tracked vehicle exactly
\* when its last y is above the crossing line and its current y on or below
\* it, the lane's colour reads RED and the vehicle is not yet flagged; a
\* crossing on GREEN signals nothing.  (The last y of a vehicle without a
\* stored position is its current y; a vehicle that is not in the frame
\* keeps its position.)
C17_ViolationIffCrossingOnRed ==
    [][\A c \in Cams : \A v \in DOMAIN vehicle_last_positions'[c] :
          LET currentY == vehicle_last_positions'[c][v]
              lastCrossingY == GetOr(vehicle_last_positions[c], v, currentY)
              before == GetOr(violation_log[c], v, 0)
              after == GetOr(violation_log'[c], v, 0)
          IN /\ after \in {before, before + 1}
             /\ (after = before + 1)
                  <=> ( /\ lastCrossingY < crossing_y
                        /\ crossing_y <= currentY
                        /\ Get(traffic_lights, c, "RED") = "RED"
                        /\ v \notin violated_ids[c] )
             /\ (after = before + 1) <=> (v \in violated_ids'[c] \ violated_ids[c])]_vars

\* a violation has been signalled for a vehicle that stands on or past the
\* line, and the lane has turned GREEN since
C17_Witness ==
    \E c \in Cams : \E v \in violated_ids[c] :
        /\ GetOr(violation_log[c], v, 0) = 1
        /\ vehicle_last_positions[c][v] >= crossing_y
        /\ Get(traffic_lights, c, "RED") = "GREEN"

\* C18: at a tick that is not low-traffic and at which no lane of the scan
\* has reached WAIT_LIMIT, the selected lane has the largest occupancy of the
\* snapshot, and of the lanes with that occupancy it is the first of the
\* snapshot's iteration order.
C18_DensestFirstSelected ==
    [][LET counts == vehicle_counts
           priority == IF CycleStale(lane_cycle, lanes) THEN EmptyMap ELSE lane_priority
       IN ( /\ spc = "select" /\ spc' = "lights"
            /\ ~AllLow(counts)
            /\ \A k \in 1..Len(lanes) : GetOr(priority, lanes[k], 0) < WAIT_LIMIT )
          => \E k \in 1..Len(counts) :
                /\ selected_cam' = counts[k][1]
                /\ \A j \in 1..Len(counts) : counts[j][2] <= counts[k][2]
                /\ \A j \in 1..(k - 1) : counts[j][2] < counts[k][2]]_vars

\* a tick has selected the second lane, the busier one, and the first
\* lane's counter went from 1 to 2: the tick that made it 1 had reset the
\* second lane's counter, so no lane was at WAIT_LIMIT and density decided
C18_Witness ==
    /\ spc = "lights" /\ sched_i = 1
    /\ Len(lanes) = 2 /\ Keys(vehicle_counts) = lanes
    /\ selected_cam = lanes[2]
    /\ GetOr(lane_priority, lanes[1], 0) = 2
    /\ vehicle_counts[2][2] > vehicle_counts[1][2]

\* C19: the override record is consistent: whenever it is active and no
\* worker is in the middle of override_signal, its cam_id is a lane, and
\* every key of the colour map is a lane.
C19_OverrideNamesLane ==
    /\ (emergency_override.active /\ \A c \in Cams : ~Overriding(c))
        => emergency_override.cam_id \in Cams
    /\ KeySet(traffic_lights) \subseteq Cams

\* C20: the lane a normal tick selects is one of the lanes the tick read,
\* whose colours and counters it writes, and the tick ends with that lane
\* GREEN.
C20_SelectedLaneIsWritten ==
    /\ spc \in {"lights", "sleep_tick"}
        => selected_cam \in {lanes[k] : k \in 1..Len(lanes)}
    /\ spc = "sleep_tick" => Get(traffic_lights, selected_cam, "RED") = "GREEN"

====
